---- MODULE Spec2Model ----
(***************************************************************************)
(* Model of csms.py: a Flask service over one SQLite file with three       *)
(* tables (users, users_numbers, admin_users).                             *)
(*                                                                         *)
(* Strings are sequences of one-character strings, so that strip(), the    *)
(* e-mail regex and the phone check are computed character by character.   *)
(* An optional column is None (the empty tuple) or Some(s) (a 1-tuple).    *)
(*                                                                         *)
(* Spec   : one request at a time; every handler is one step.              *)
(* SpecC  : several delete requests in flight at once; the two single-row  *)
(*          delete handlers are split at their statement boundary (the     *)
(*          SELECT, then the DELETE with its commit).                      *)
(***************************************************************************)
EXTENDS Integers, Sequences, FiniteSets, TLC

VARIABLES
    running,        \* the process is up (init_db at line 116 has returned)
    users,          \* rows of table users
    users_seq,      \* sqlite_sequence entry of users (AUTOINCREMENT)
    users_numbers,  \* rows of table users_numbers
    numbers_seq,    \* sqlite_sequence entry of users_numbers
    admin_users,    \* rows of table admin_users
    clock,          \* CURRENT_TIMESTAMP of the store
    issued,         \* history: ids returned by successful inserts, per table
    last,           \* history: the request handled last and its response
    pc              \* SpecC: per client, the position in a delete handler

vars == <<running, users, users_seq, users_numbers, numbers_seq, admin_users,
          clock, issued, last, pc>>

-----------------------------------------------------------------------------
(* Bounds *)

MaxId == 2
MaxClock == 1
NumClients == 2

-----------------------------------------------------------------------------
(* Strings *)

None == <<>>
Some(s) == <<s>>

IsSpace(c) == c \in {" ", "\n", "\t"}
IsDigit(c) == c \in {"0", "1", "2", "3", "4", "5", "6", "7", "8", "9"}

RECURSIVE lstrip(_)
lstrip(s) == IF s # <<>> /\ IsSpace(Head(s)) THEN lstrip(Tail(s)) ELSE s

RECURSIVE rstrip(_)
rstrip(s) ==
    IF s # <<>> /\ IsSpace(s[Len(s)]) THEN rstrip(SubSeq(s, 1, Len(s) - 1)) ELSE s

strip(s) == rstrip(lstrip(s))

\* x.strip() or None
OrNone(s) == IF strip(s) = <<>> THEN None ELSE Some(strip(s))

\* data.get(k, '')
Get(data, k) == IF k \in DOMAIN data THEN data[k] ELSE <<>>

-----------------------------------------------------------------------------
(* Validation functions *)

\* [^\s@]
Plain(c) == ~IsSpace(c) /\ c # "@"

\* s[a..b] is a non-empty run of [^\s@]
PlainRun(s, a, b) == a <= b /\ \A k \in a..b : Plain(s[k])

\* [^\s@]+@[^\s@]+\.[^\s@]+ over the whole of s
EmailPattern(s) ==
    \E i \in 1..Len(s) : \E j \in 1..Len(s) :
        /\ i < j
        /\ s[i] = "@"
        /\ s[j] = "."
        /\ PlainRun(s, 1, i - 1)
        /\ PlainRun(s, i + 1, j - 1)
        /\ PlainRun(s, j + 1, Len(s))

\* re.match with ^...$: "$" also matches just before one trailing newline
validate_email(email) ==
    \/ EmailPattern(email)
    \/ /\ email # <<>>
       /\ email[Len(email)] = "\n"
       /\ EmailPattern(SubSeq(email, 1, Len(email) - 1))

MinPhoneDigits == 7

PhonePunct(c) == IsSpace(c) \/ c \in {"-", "(", ")", "+"}

NotPhonePunct(c) == ~PhonePunct(c)

\* re.sub(r'[\s\-\(\)\+]', '', phone)
CleanPhone(phone) == SelectSeq(phone, NotPhonePunct)

\* str.isdigit(): non-empty and every character a digit
IsDigitStr(s) == s # <<>> /\ \A k \in 1..Len(s) : IsDigit(s[k])

validate_phone(phone) ==
    IsDigitStr(CleanPhone(phone)) /\ Len(CleanPhone(phone)) >= MinPhoneDigits

-----------------------------------------------------------------------------
(* Credentials *)

DefaultUsername == <<"a", "d", "m", "i", "n">>

DefaultPassword ==
    <<"S", "e", "c", "u", "r", "e", "P", "a", "s", "s", "1", "2", "3", "!">>

SaltBytes == 16

\* secrets.token_hex(16): 2 * 16 hexadecimal characters, drawn at random
Salts == { [i \in 1..(2 * SaltBytes) |-> c] : c \in {"a", "b"} }

\* hashlib.sha256(x.encode()).hexdigest(): a function of x, taken collision-free
Sha256Hex(x) == <<"sha256", x>>

PasswordHash(password, salt) == Sha256Hex(password \o salt)

\* secrets.token_hex(32), drawn at random
Tokens == {"token1", "token2"}

-----------------------------------------------------------------------------
(* Inputs *)

EmptyJson == <<>>

Names == { <<" ">>, <<" ", "J">> }
Companies == { <<"C", " ">> }
Emails == { <<>>, <<"a", "@", "b", ".", "c">>, <<"a", "@", "b">> }
Phones == { <<>>, <<"1", "2", "3", "-", "4", "5", "6", "7">>, <<"1", "2", "3">> }

RegisterBodies ==
    {EmptyJson} \cup [name : Names, company : Companies, email : Emails, phone : Phones]

DetailNumbers ==
    { <<" ">>, <<"+", "1", " ", "(", "2", "3", "4", ")", "5", "6", "7">>,
      <<"a", "b", "c", "1", "2", "3", "4">>, <<"1", "2", "3">> }

NumberBodies == {EmptyJson} \cup [details_number : DetailNumbers]

Usernames == { <<" ">>, <<" ">> \o DefaultUsername, <<"b", "o", "b">> }
Passwords == { <<>>, DefaultPassword \o <<" ">>, <<"x">> }

LoginBodies == [username : Usernames, password : Passwords]

\* <int:user_id>: a non-negative integer
Ids == 1..(MaxId + 1)

Clients == 1..NumClients

Idle == [at |-> "idle", table |-> "none", id |-> 0, status |-> 0]

-----------------------------------------------------------------------------
(* Store *)

\* where a storage error strikes a handler: nowhere, in sqlite3.connect, or in
\* a statement or the commit that follows a successful connect
Faults == {"none", "connect", "execute"}

RowIds(rows) == { r.id : r \in rows }

MaxOf(S) == CHOOSE m \in S : \A x \in S : x <= m

\* faulty variant: a plain INTEGER PRIMARY KEY, one more than the largest rowid
\* now in the table
NextRowIdNoAutoincrement(rows, seq) ==
    IF rows = {} THEN 1 ELSE MaxOf(RowIds(rows)) + 1

\* INTEGER PRIMARY KEY AUTOINCREMENT: one more than the largest rowid the table
\* ever held, which sqlite_sequence remembers across deletes
NextRowId(rows, seq) == seq + 1

\* CHECK (email IS NOT NULL OR phone IS NOT NULL)
UsersCheck(row) == row.email # None \/ row.phone # None

\* SELECT id FROM t WHERE id = ?  followed by fetchone()
RowExists(rows, id) == \E r \in rows : r.id = id

\* faulty variant: DELETE FROM t WHERE id <= ?
DeleteRowUpTo(rows, id) == { r \in rows : r.id > id }

\* DELETE FROM t WHERE id = ?
DeleteRow(rows, id) == { r \in rows : r.id # id }

\* faulty variant: the rowcount of a DELETE that the store runs as a truncate
RowCountTruncate(rows) == 0

\* cursor.rowcount after DELETE FROM t
RowCount(rows) == Cardinality(rows)

\* DELETE FROM t
DeleteAllRows(rows) == {}

\* SELECT * FROM t ORDER BY created_at DESC: any order of the rows that is
\* non-increasing in created_at (rows of one second come in any order)
OrderedByCreatedDesc(rows) ==
    { s \in [1..Cardinality(rows) -> rows] :
        /\ \A i, j \in DOMAIN s : i # j => s[i] # s[j]
        /\ \A i, j \in DOMAIN s : i < j => s[i].created_at >= s[j].created_at }

-----------------------------------------------------------------------------
(* Responses *)

HTTP(status, body) == [status |-> status, body |-> body]

Error(status, text) == HTTP(status, [error |-> text])

\* what the framework answers when the view function raises
InternalServerError == HTTP(500, [message |-> "Internal Server Error"])

\* finally: if conn: conn.close()
\* conn is the local variable: "unbound" (never assigned), "none" or "open".
\* Reading an unbound local raises UnboundLocalError out of the finally clause,
\* which replaces the pending return.
FinallyClose(ret, conn) ==
    [resp |-> IF conn = "unbound" THEN InternalServerError ELSE ret,
     open |-> FALSE]

\* conn.close() on the way to the return
Closed(ret) == [resp |-> ret, open |-> FALSE]

\* a handler that leaves without a finally clause
NoFinally(ret, conn) == [resp |-> ret, open |-> conn = "open"]

\* the handler has returned: what it was asked, what it answered, whether it
\* opened a connection, whether that connection is still open, and the storage
\* error that struck it
Reply(op, arg, out, conn, fault) ==
    last' = [op |-> op, arg |-> arg, status |-> out.resp.status,
             body |-> out.resp.body, opened |-> conn = "open",
             left_open |-> out.open, fault |-> fault]

Tables == <<users, users_seq, users_numbers, numbers_seq, admin_users, clock>>

-----------------------------------------------------------------------------
(* init_db *)

\* faulty variant: the test inverted
NeedSeedInverted(admins) == Cardinality(admins) # 0

\* if cursor.fetchone()[0] == 0
NeedSeed(admins) == Cardinality(admins) = 0

\* username TEXT NOT NULL UNIQUE
AdminUnique(admins, username) == \A r \in admins : r.username # username

\* the seeded row; the table is empty when it is inserted, so its id is 1
AdminRow(username, password, salt) ==
    [id |-> 1, username |-> username, password_hash |-> PasswordHash(password, salt),
     salt |-> salt, created_at |-> clock]

Init ==
    /\ running = FALSE
    /\ users = {}
    /\ users_seq = 0
    /\ users_numbers = {}
    /\ numbers_seq = 0
    /\ admin_users = {}
    /\ clock = 0
    /\ issued = [users |-> {}, numbers |-> {}]
    /\ last = [op |-> "none", arg |-> <<>>, status |-> 0, body |-> [message |-> "none"],
               opened |-> FALSE, left_open |-> FALSE, fault |-> "none"]
    /\ pc = [c \in Clients |-> Idle]

\* init_db(), run at import time by every process that serves the database
\* file (a restart, or one more worker); when it raises, that process does not
\* come up. Its finally clause closes the connection.
init_db ==
    /\ \E fault \in Faults :
        IF fault # "none"
        THEN /\ last' = [op |-> "init_db", arg |-> <<>>, status |-> 0,
                         body |-> [error |-> "init_db raised"],
                         opened |-> fault = "execute", left_open |-> FALSE,
                         fault |-> fault]
             /\ UNCHANGED <<running, admin_users>>
        ELSE IF NeedSeed(admin_users) /\ ~AdminUnique(admin_users, DefaultUsername)
        THEN /\ last' = [op |-> "init_db", arg |-> <<>>, status |-> 0,
                         body |-> [error |-> "init_db raised"],
                         opened |-> TRUE, left_open |-> FALSE, fault |-> "constraint"]
             /\ UNCHANGED <<running, admin_users>>
        ELSE /\ \E salt \in Salts :
                admin_users' =
                    IF NeedSeed(admin_users)
                    THEN admin_users \cup {AdminRow(DefaultUsername, DefaultPassword, salt)}
                    ELSE admin_users
             /\ running' = TRUE
             /\ last' = [op |-> "init_db", arg |-> <<>>, status |-> 0,
                         body |-> [message |-> "Database initialized successfully!"],
                         opened |-> TRUE, left_open |-> FALSE, fault |-> "none"]
    /\ UNCHANGED <<users, users_seq, users_numbers, numbers_seq, clock, issued, pc>>

-----------------------------------------------------------------------------
(* POST /auth/login *)

\* faulty variant: an answer of its own for an unknown username
NoSuchUserRevealed == Error(404, "User not found")

\* return {'error': 'Invalid credentials'}, 401   (no row for the username)
NoSuchUser == Error(401, "Invalid credentials")

\* return {'error': 'Invalid credentials'}, 401   (hash mismatch)
WrongPassword == Error(401, "Invalid credentials")

CredentialsMissing(data) ==
    strip(Get(data, "username")) = <<>> \/ strip(Get(data, "password")) = <<>>

\* the try block of UserLogin.post once the connection is open
LoginCheck(data, token) ==
    LET username == strip(Get(data, "username"))
        password == strip(Get(data, "password"))
        result == { r \in admin_users : r.username = username }
    IN  IF result = {}
        THEN NoSuchUser
        ELSE LET row == CHOOSE r \in result : TRUE
             IN  IF PasswordHash(password, row.salt) = row.password_hash
                 THEN HTTP(200, [message |-> "Login successful", token |-> token])
                 ELSE WrongPassword

\* UserLogin.post: conn is first assigned by sqlite3.connect, so it is unbound
\* on the paths that leave before or inside that call
UserLogin ==
    /\ running
    /\ \E data \in LoginBodies :
        IF CredentialsMissing(data)
        THEN Reply("login", data,
                   FinallyClose(Error(401, "Username and password are required"), "unbound"),
                   "unbound", "none")
        ELSE \E fault \in Faults :
            IF fault = "connect"
            THEN Reply("login", data,
                       FinallyClose(Error(500, "An unexpected error occurred"), "unbound"),
                       "unbound", fault)
            ELSE IF fault = "execute"
            THEN Reply("login", data,
                       FinallyClose(Error(500, "An unexpected error occurred"), "open"),
                       "open", fault)
            ELSE \E token \in Tokens :
                Reply("login", data, FinallyClose(LoginCheck(data, token), "open"),
                      "open", "none")
    /\ UNCHANGED <<running, Tables, issued, pc>>

-----------------------------------------------------------------------------
(* POST /users/register *)

\* faulty variant: the e-mail format is not checked
RegistrationErrorNoEmailCheck(data) ==
    LET name == strip(Get(data, "name"))
        email == OrNone(Get(data, "email"))
        phone == OrNone(Get(data, "phone"))
    IN  IF DOMAIN data = {} THEN "No data provided"
        ELSE IF name = <<>> THEN "Name is required"
        ELSE IF email = None /\ phone = None
             THEN "Either email or phone number is required"
        ELSE IF phone # None /\ ~validate_phone(phone[1])
             THEN "Invalid phone number format"
        ELSE "ok"

\* the checks of UserRegistration.post, in order; "ok" when all pass
RegistrationError(data) ==
    LET name == strip(Get(data, "name"))
        email == OrNone(Get(data, "email"))
        phone == OrNone(Get(data, "phone"))
    IN  IF DOMAIN data = {} THEN "No data provided"
        ELSE IF name = <<>> THEN "Name is required"
        ELSE IF email = None /\ phone = None
             THEN "Either email or phone number is required"
        ELSE IF email # None /\ ~validate_email(email[1]) THEN "Invalid email format"
        ELSE IF phone # None /\ ~validate_phone(phone[1])
             THEN "Invalid phone number format"
        ELSE "ok"

UserRow(id, data, now) ==
    [id |-> id,
     name |-> strip(Get(data, "name")),
     company |-> OrNone(Get(data, "company")),
     email |-> OrNone(Get(data, "email")),
     phone |-> OrNone(Get(data, "phone")),
     created_at |-> now]

UserRegistration ==
    /\ running
    /\ \E data \in RegisterBodies :
        LET err == RegistrationError(data)
            id == NextRowId(users, users_seq)
        IN  IF err # "ok"
            THEN /\ Reply("register", data, FinallyClose(Error(400, err), "none"),
                          "none", "none")
                 /\ UNCHANGED <<Tables, issued>>
            ELSE \E fault \in Faults :
                IF fault = "connect"
                THEN /\ Reply("register", data,
                              FinallyClose(Error(500, "An unexpected error occurred"),
                                           "none"),
                              "none", fault)
                     /\ UNCHANGED <<Tables, issued>>
                ELSE IF fault = "execute" \/ ~UsersCheck(UserRow(id, data, clock))
                THEN /\ Reply("register", data,
                              FinallyClose(Error(500, "An unexpected error occurred"),
                                           "open"),
                              "open", IF fault = "execute" THEN fault ELSE "constraint")
                     /\ UNCHANGED <<Tables, issued>>
                ELSE \E now \in clock..MaxClock :
                     /\ id <= MaxId
                     /\ users' = users \cup {UserRow(id, data, now)}
                     /\ users_seq' = IF id > users_seq THEN id ELSE users_seq
                     /\ clock' = now
                     /\ issued' = [issued EXCEPT !.users = @ \cup {id}]
                     /\ Reply("register", data,
                              FinallyClose(HTTP(201, [message |-> "Registration successful!",
                                                      user_id |-> id]), "open"),
                              "open", "none")
                     /\ UNCHANGED <<users_numbers, numbers_seq, admin_users>>
    /\ UNCHANGED <<running, pc>>

-----------------------------------------------------------------------------
(* POST /numbers/detail_number *)

\* faulty variant: the phone format is not checked
NumberErrorNoFormatCheck(data) ==
    LET details_number == strip(Get(data, "details_number"))
    IN  IF DOMAIN data = {} THEN "No data provided"
        ELSE IF details_number = <<>> THEN "Details number is required"
        ELSE "ok"

\* the checks of PhoneNumber.post, in order; "ok" when all pass
NumberError(data) ==
    LET details_number == strip(Get(data, "details_number"))
    IN  IF DOMAIN data = {} THEN "No data provided"
        ELSE IF details_number = <<>> THEN "Details number is required"
        ELSE IF ~validate_phone(details_number) THEN "Invalid phone number format"
        ELSE "ok"

NumberRow(id, data, now) ==
    [id |-> id, details_number |-> strip(Get(data, "details_number")), created_at |-> now]

PhoneNumber ==
    /\ running
    /\ \E data \in NumberBodies :
        LET err == NumberError(data)
            id == NextRowId(users_numbers, numbers_seq)
        IN  IF err # "ok"
            THEN /\ Reply("store_number", data, FinallyClose(Error(400, err), "none"),
                          "none", "none")
                 /\ UNCHANGED <<Tables, issued>>
            ELSE \E fault \in Faults :
                IF fault = "connect"
                THEN /\ Reply("store_number", data,
                              FinallyClose(Error(500, "An unexpected error occurred"),
                                           "none"),
                              "none", fault)
                     /\ UNCHANGED <<Tables, issued>>
                ELSE IF fault = "execute"
                THEN /\ Reply("store_number", data,
                              FinallyClose(Error(500, "An unexpected error occurred"),
                                           "open"),
                              "open", fault)
                     /\ UNCHANGED <<Tables, issued>>
                ELSE \E now \in clock..MaxClock :
                     /\ id <= MaxId
                     /\ users_numbers' = users_numbers \cup {NumberRow(id, data, now)}
                     /\ numbers_seq' = IF id > numbers_seq THEN id ELSE numbers_seq
                     /\ clock' = now
                     /\ issued' = [issued EXCEPT !.numbers = @ \cup {id}]
                     /\ Reply("store_number", data,
                              FinallyClose(HTTP(201,
                                                [message |-> "Phone number saved successfully!",
                                                 number_id |-> id]), "open"),
                              "open", "none")
                     /\ UNCHANGED <<users, users_seq, admin_users>>
    /\ UNCHANGED <<running, pc>>

-----------------------------------------------------------------------------
(* GET /users/all, GET /numbers/all *)

StorageError == [error |-> "sqlite3 error"]

\* the body shared by GetAllUsers.get and GetAllNumbers.get
GetAll(op, rows) ==
    /\ running
    /\ \E fault \in Faults : \E listing \in OrderedByCreatedDesc(rows) :
        IF fault = "connect"
        THEN Reply(op, <<>>, FinallyClose(HTTP(500, StorageError), "none"), "none", fault)
        ELSE IF fault = "execute"
        THEN Reply(op, <<>>, FinallyClose(HTTP(500, StorageError), "open"), "open", fault)
        ELSE Reply(op, <<>>, FinallyClose(HTTP(200, [rows |-> listing]), "open"),
                   "open", "none")
    /\ UNCHANGED <<running, Tables, issued, pc>>

GetAllUsers == GetAll("get_users", users)

GetAllNumbers == GetAll("get_numbers", users_numbers)

-----------------------------------------------------------------------------
(* DELETE /users/delete/<id>, DELETE /numbers/delete/<id> *)

\* the body shared by DeleteUser.delete and DeleteNumber.delete, run without
\* interruption; rows' is the table after the request
DeleteOne(op, id, rows, rowsAfter, notFound, deleted) ==
    \E fault \in Faults :
        IF fault = "connect"
        THEN /\ Reply(op, id, FinallyClose(HTTP(500, StorageError), "none"), "none", fault)
             /\ rowsAfter = rows
        ELSE IF fault = "execute"
        THEN /\ Reply(op, id, FinallyClose(HTTP(500, StorageError), "open"), "open", fault)
             /\ rowsAfter = rows
        ELSE IF ~RowExists(rows, id)
        THEN /\ Reply(op, id, FinallyClose(Error(404, notFound), "open"), "open", "none")
             /\ rowsAfter = rows
        ELSE /\ Reply(op, id, FinallyClose(HTTP(200, [message |-> deleted]), "open"),
                      "open", "none")
             /\ rowsAfter = DeleteRow(rows, id)

DeleteUser ==
    /\ running
    /\ \E user_id \in Ids :
        DeleteOne("delete_user", user_id, users, users',
                  "User not found", "User deleted successfully")
    /\ UNCHANGED <<running, users_seq, users_numbers, numbers_seq, admin_users, clock,
                   issued, pc>>

DeleteNumber ==
    /\ running
    /\ \E number_id \in Ids :
        DeleteOne("delete_number", number_id, users_numbers, users_numbers',
                  "Number not found", "Number deleted successfully")
    /\ UNCHANGED <<running, users, users_seq, numbers_seq, admin_users, clock, issued, pc>>

-----------------------------------------------------------------------------
(* DELETE /users/delete_all, DELETE /numbers/delete_all *)

\* the body shared by DeleteAllUsers.delete and DeleteAllNumbers.delete;
\* the message embeds deleted_count
DeleteAll(op, rows, rowsAfter, what) ==
    \E fault \in Faults :
        IF fault = "connect"
        THEN /\ Reply(op, <<>>, FinallyClose(HTTP(500, StorageError), "none"), "none", fault)
             /\ rowsAfter = rows
        ELSE IF fault = "execute"
        THEN /\ Reply(op, <<>>, FinallyClose(HTTP(500, StorageError), "open"), "open", fault)
             /\ rowsAfter = rows
        ELSE /\ Reply(op, <<>>,
                      FinallyClose(HTTP(200, [message |-> <<"Deleted all", RowCount(rows),
                                                            what, "successfully">>]),
                                   "open"),
                      "open", "none")
             /\ rowsAfter = DeleteAllRows(rows)

DeleteAllUsers ==
    /\ running
    /\ DeleteAll("delete_all_users", users, users', "users")
    /\ UNCHANGED <<running, users_seq, users_numbers, numbers_seq, admin_users, clock,
                   issued, pc>>

DeleteAllNumbers ==
    /\ running
    /\ DeleteAll("delete_all_numbers", users_numbers, users_numbers', "phone numbers")
    /\ UNCHANGED <<running, users, users_seq, numbers_seq, admin_users, clock, issued, pc>>

-----------------------------------------------------------------------------
(* GET /health *)

\* HealthCheck.get closes the connection inside the try block and has no
\* finally clause
HealthCheck ==
    /\ running
    /\ \E fault \in Faults :
        IF fault = "connect"
        THEN Reply("health", <<>>,
                   NoFinally(HTTP(500, [status |-> "ERROR",
                                        message |-> "Database connection failed"]),
                             "none"),
                   "none", fault)
        ELSE IF fault = "execute"
        THEN Reply("health", <<>>,
                   NoFinally(HTTP(500, [status |-> "ERROR",
                                        message |-> "Database connection failed"]),
                             "open"),
                   "open", fault)
        ELSE Reply("health", <<>>,
                   Closed(HTTP(200, [status |-> "OK",
                                     users_count |-> RowCount(users),
                                     numbers_count |-> RowCount(users_numbers)])),
                   "open", "none")
    /\ UNCHANGED <<running, Tables, issued, pc>>

-----------------------------------------------------------------------------
(* One request at a time *)

Next ==
    \/ init_db
    \/ UserLogin
    \/ UserRegistration
    \/ PhoneNumber
    \/ GetAllUsers
    \/ GetAllNumbers
    \/ DeleteUser
    \/ DeleteNumber
    \/ DeleteAllUsers
    \/ DeleteAllNumbers
    \/ HealthCheck

Spec == Init /\ [][Next]_vars

-----------------------------------------------------------------------------
(* Several delete requests in flight *)

\* DeleteUser.delete and DeleteNumber.delete run two statements on their own
\* connection: the SELECT, which reads outside any transaction, and the DELETE
\* with its commit. The store serialises the statements, not the handlers, so
\* the statements of two requests interleave. Each client issues one request.

SeedContact ==
    [name |-> <<" ", "J">>, company |-> <<"C", " ">>,
     email |-> <<"a", "@", "b", ".", "c">>, phone |-> <<>>]

SeedNumber ==
    [details_number |-> <<"+", "1", " ", "(", "2", "3", "4", ")", "5", "6", "7">>]

\* a started service that has registered MaxId contacts and MaxId numbers
InitC ==
    /\ running = TRUE
    /\ users = { UserRow(i, SeedContact, 0) : i \in 1..MaxId }
    /\ users_seq = MaxId
    /\ users_numbers = { NumberRow(i, SeedNumber, 0) : i \in 1..MaxId }
    /\ numbers_seq = MaxId
    /\ clock = 0
    /\ \E salt \in Salts :
          admin_users = {AdminRow(DefaultUsername, DefaultPassword, salt)}
    /\ issued = [users |-> 1..MaxId, numbers |-> 1..MaxId]
    /\ last = [op |-> "store_number", arg |-> SeedNumber, status |-> 201,
               body |-> [message |-> "Phone number saved successfully!",
                         number_id |-> MaxId],
               opened |-> TRUE, left_open |-> FALSE, fault |-> "none"]
    /\ pc = [c \in Clients |-> Idle]

Done(table, id, status) == [at |-> "done", table |-> table, id |-> id, status |-> status]

\* connect, SELECT id FROM t WHERE id = ?, fetchone(): 404 when there is no row
SelectStep(c, table, rows) ==
    /\ pc[c].at = "idle"
    /\ \E id \in Ids : \E fault \in Faults :
        pc' = [pc EXCEPT ![c] =
                  IF fault # "none" THEN Done(table, id, 500)
                  ELSE IF ~RowExists(rows, id) THEN Done(table, id, 404)
                  ELSE [at |-> "checked", table |-> table, id |-> id, status |-> 0]]

\* DELETE FROM t WHERE id = ?, commit, return 200 (rowcount is not read)
DeleteStep(c, table, rows, rowsAfter) ==
    /\ pc[c].at = "checked"
    /\ pc[c].table = table
    /\ \E fault \in {"none", "execute"} :
        IF fault # "none"
        THEN /\ pc' = [pc EXCEPT ![c] = Done(table, pc[c].id, 500)]
             /\ rowsAfter = rows
        ELSE /\ pc' = [pc EXCEPT ![c] = Done(table, pc[c].id, 200)]
             /\ rowsAfter = DeleteRow(rows, pc[c].id)

DeleteUserSelect(c) ==
    /\ SelectStep(c, "users", users)
    /\ UNCHANGED <<running, Tables, issued, last>>

DeleteUserDelete(c) ==
    /\ DeleteStep(c, "users", users, users')
    /\ UNCHANGED <<running, users_seq, users_numbers, numbers_seq, admin_users, clock,
                   issued, last>>

DeleteNumberSelect(c) ==
    /\ SelectStep(c, "users_numbers", users_numbers)
    /\ UNCHANGED <<running, Tables, issued, last>>

DeleteNumberDelete(c) ==
    /\ DeleteStep(c, "users_numbers", users_numbers, users_numbers')
    /\ UNCHANGED <<running, users, users_seq, numbers_seq, admin_users, clock, issued, last>>

NextC ==
    \E c \in Clients :
        \/ DeleteUserSelect(c)
        \/ DeleteUserDelete(c)
        \/ DeleteNumberSelect(c)
        \/ DeleteNumberDelete(c)

SpecC == InitC /\ [][NextC]_vars

-----------------------------------------------------------------------------
(* Properties *)

ContactInputOk(data) ==
    LET name == strip(Get(data, "name"))
        email == strip(Get(data, "email"))
        phone == strip(Get(data, "phone"))
    IN  /\ name # <<>>
        /\ email # <<>> \/ phone # <<>>
        /\ email # <<>> => validate_email(email)
        /\ phone # <<>> => validate_phone(phone)

NumberInputOk(data) ==
    LET details_number == strip(Get(data, "details_number"))
    IN  details_number # <<>> /\ validate_phone(details_number)

LoginFieldsPresent(data) ==
    strip(Get(data, "username")) # <<>> /\ strip(Get(data, "password")) # <<>>

\* C1: every stored contact has a name that is non-empty after trimming, has an
\* email or a phone, and each of the two that is present passes its validation
\* function.
C1_StoredContactsValid ==
    \A r \in users :
        /\ strip(r.name) # <<>>
        /\ r.email # None \/ r.phone # None
        /\ r.email # None => validate_email(r.email[1])
        /\ r.phone # None => validate_phone(r.phone[1])

\* two contacts are stored, one without a phone and one without an email
C1_Witness ==
    /\ Cardinality(users) = 2
    /\ \E r \in users : r.phone = None
    /\ \E r \in users : r.email = None

C2_Step ==
    /\ last'.op = "register" =>
          IF ~ContactInputOk(last'.arg)
          THEN last'.status = 400 /\ ~last'.opened /\ Tables' = Tables
          ELSE last'.fault = "none" =>
                  /\ last'.status = 201
                  /\ users \subseteq users'
                  /\ Cardinality(users') = Cardinality(users) + 1
                  /\ users_numbers' = users_numbers
                  /\ admin_users' = admin_users
    /\ last'.op = "store_number" =>
          IF ~NumberInputOk(last'.arg)
          THEN last'.status = 400 /\ ~last'.opened /\ Tables' = Tables
          ELSE last'.fault = "none" =>
                  /\ last'.status = 201
                  /\ users_numbers \subseteq users_numbers'
                  /\ Cardinality(users_numbers') = Cardinality(users_numbers) + 1
                  /\ users' = users
                  /\ admin_users' = admin_users

\* C2: a register or store-number request that violates an input constraint is
\* answered 400, opens no connection and leaves the three tables as they were;
\* one that satisfies them all is answered 201 and adds exactly one row to its
\* own table (the store working: a storage error is the 500 of the same table row).
C2_InvalidRejectedValidStored == [][C2_Step]_vars

\* a malformed email was refused while contacts and numbers are stored
C2_Witness ==
    /\ last.op = "register"
    /\ last.status = 400
    /\ last.body = [error |-> "Invalid email format"]
    /\ users # {}
    /\ users_numbers # {}

C3_Step ==
    /\ (last'.op = "delete_user" /\ last'.fault = "none") =>
          IF \A r \in users : r.id # last'.arg
          THEN last'.status = 404 /\ Tables' = Tables
          ELSE /\ last'.status = 200
               /\ users' = { r \in users : r.id # last'.arg }
               /\ Cardinality(users') = Cardinality(users) - 1
               /\ users_numbers' = users_numbers
               /\ admin_users' = admin_users
    /\ (last'.op = "delete_number" /\ last'.fault = "none") =>
          IF \A r \in users_numbers : r.id # last'.arg
          THEN last'.status = 404 /\ Tables' = Tables
          ELSE /\ last'.status = 200
               /\ users_numbers' = { r \in users_numbers : r.id # last'.arg }
               /\ Cardinality(users_numbers') = Cardinality(users_numbers) - 1
               /\ users' = users
               /\ admin_users' = admin_users

\* C3: a single delete, handled on its own, answers 404 and changes no table
\* when its table has no row of that id; otherwise it answers 200 and removes
\* that one row and nothing else (the store working).
C3_DeleteOne == [][C3_Step]_vars

\* a contact was deleted while another contact and a number stay stored
C3_Witness ==
    /\ last.op = "delete_user"
    /\ last.status = 200
    /\ Cardinality(users) = 1
    /\ users_numbers # {}

C4_Step ==
    /\ (last'.op = "delete_all_users" /\ last'.fault = "none") =>
          /\ last'.status = 200
          /\ last'.body.message[2] = Cardinality(users)
          /\ users' = {}
          /\ users_numbers' = users_numbers
          /\ admin_users' = admin_users
    /\ (last'.op = "delete_all_numbers" /\ last'.fault = "none") =>
          /\ last'.status = 200
          /\ last'.body.message[2] = Cardinality(users_numbers)
          /\ users_numbers' = {}
          /\ users' = users
          /\ admin_users' = admin_users
    /\ (/\ last.op = "delete_all_users" /\ last.status = 200
        /\ last'.op = "get_users" /\ last'.status = 200) =>
          last'.body.rows = <<>>
    /\ (/\ last.op = "delete_all_numbers" /\ last.status = 200
        /\ last'.op = "get_numbers" /\ last'.status = 200) =>
          last'.body.rows = <<>>
    /\ (/\ last.op = "delete_all_users" /\ last.status = 200
        /\ last'.op = "delete_all_users" /\ last'.fault = "none") =>
          last'.status = 200 /\ last'.body.message[2] = 0 /\ Tables' = Tables
    /\ (/\ last.op = "delete_all_numbers" /\ last.status = 200
        /\ last'.op = "delete_all_numbers" /\ last'.fault = "none") =>
          last'.status = 200 /\ last'.body.message[2] = 0 /\ Tables' = Tables

\* C4: delete-all reports the number of rows its table held just before the
\* call and leaves it empty, the list that follows is empty, and a second
\* delete-all in a row succeeds with count 0 and changes nothing (the store
\* working).
C4_DeleteAll == [][C4_Step]_vars

\* delete-all has just removed two contacts
C4_Witness ==
    /\ last.op = "delete_all_users"
    /\ last.status = 200
    /\ last.body.message[2] = 2
    /\ users = {}

\* C5: a login that presents a username and a password and fails is answered
\* 401 with one and the same body, whether or not the username exists; a wrong
\* password is answered 401.
C5_FailedLoginUniform ==
    (last.op = "login" /\ LoginFieldsPresent(last.arg) /\ last.fault = "none") =>
        /\ last.status # 200 =>
              last.status = 401 /\ last.body = [error |-> "Invalid credentials"]
        /\ strip(Get(last.arg, "password")) # DefaultPassword => last.status = 401

\* the seeded username was presented with a wrong password and refused
C5_Witness ==
    /\ last.op = "login"
    /\ last.status = 401
    /\ \E r \in admin_users : r.username = strip(Get(last.arg, "username"))
    /\ strip(Get(last.arg, "password")) # <<>>

\* C6: no handler leaves the connection it opened open when it returns.
C6_NoConnectionLeftOpen == ~last.left_open

C7_Step ==
    /\ (last'.op = "register" /\ last'.status = 201) =>
          \A i \in issued.users : last'.body.user_id > i
    /\ (last'.op = "store_number" /\ last'.status = 201) =>
          \A i \in issued.numbers : last'.body.number_id > i

\* C7: every successful insert returns an id greater than every id issued for
\* its table before, also after rows were deleted.
C7_IdsNeverReissued == [][C7_Step]_vars

\* id 2 was issued after the contact with id 1 was deleted
C7_Witness ==
    /\ last.op = "register"
    /\ last.status = 201
    /\ last.body.user_id = 2
    /\ Cardinality(users) = 1

C8_Step ==
    /\ admin_users # {} => admin_users' = admin_users
    /\ last'.op # "init_db" => admin_users' = admin_users

\* C8: once the service is up admin_users holds exactly one row; init_db
\* inserts only into an empty table, and no request changes the table.
C8_OneAdminRow == [](running => Cardinality(admin_users) = 1) /\ [][C8_Step]_vars

\* init_db has run again on a database that already holds contacts
C8_Witness ==
    /\ running
    /\ last.op = "init_db"
    /\ last.fault = "none"
    /\ users # {}
    /\ Cardinality(admin_users) = 1

\* C9: of the finished delete requests for one id that existed, exactly one
\* was answered 200 and every other 404.
C9_OneDeleteSucceeds ==
    \A table \in {"users", "users_numbers"} : \A id \in 1..MaxId :
        LET finished == { c \in Clients : /\ pc[c].at = "done"
                                          /\ pc[c].table = table
                                          /\ pc[c].id = id
                                          /\ pc[c].status # 500 }
        IN  finished # {} =>
                /\ Cardinality({ c \in finished : pc[c].status = 200 }) = 1
                /\ \A c \in finished : pc[c].status \in {200, 404}

C10_Step ==
    (last'.op = "login" /\ ~LoginFieldsPresent(last'.arg)) =>
        /\ last'.status = 401
        /\ last'.body = [error |-> "Username and password are required"]
        /\ ~last'.opened
        /\ Tables' = Tables

\* C10: a login whose username or password is empty after trimming is answered
\* 401 'Username and password are required', opens no connection and changes
\* no table.
C10_MissingCredentials401 == [][C10_Step]_vars

====
